---- MODULE Spec2Model ----
(***************************************************************************)
(* Pairs-trading simulator: the signal generator and the Pair model of     *)
(* AssetPair.cpp, the statistics of Utilities.cpp and the simulation       *)
(* engine of Backtester.cpp.                                               *)
(*                                                                         *)
(* Numbers.  A C++ double is modelled by an exact rational [n, d] in       *)
(* lowest terms with d > 0 (no rounding), a value that went through a      *)
(* square root (a standard deviation, a z-score, a test statistic) by      *)
(* [nan, inf, sg, sq] standing for sg * sqrt(sq), sg * infinity or NaN.    *)
(***************************************************************************)
EXTENDS Integers, Sequences, FiniteSets, TLC

VARIABLES
    \* --- AssetPair::generateSignals called on its own ---
    sigZ,        \* the z-score sequence the call works on
    sigEntry,    \* entryThreshold
    sigExit,     \* exitThreshold
    sigOut,      \* the returned signal sequence
    sigPc,       \* "call" before the call, "done" after it
    \* --- one AssetPair constructed and called on its own ---
    inputA,      \* the pricesA argument of the constructor
    inputB,      \* the pricesB argument of the constructor
    thePair,     \* the AssetPair: its fields
    returned,    \* what the last getZScores or generateSignals call returned
    calls,       \* member calls made on the pair
    lastCall,    \* the last member call: its name and its window argument
    pairPc,      \* "new" before the constructor, "built" after it
    \* --- Backtester and the MarketData it shares ---
    marketData,      \* MarketData: [size, prices], prices a function on the known symbols
    pairs,           \* pairs_
    positions,       \* positions_
    portfolioValues, \* portfolioValues_
    tradeHistory,    \* tradeHistory_: <<day, pnl>>
    cash,            \* cash_
    initialCapital,  \* initialCapital_
    metrics,         \* metrics_
    \* --- runBacktest in progress: its arguments, locals and position ---
    pc,              \* "idle", "pairs" (the for over pairs_) or "days" (the for over days)
    args,            \* [entryThreshold, exitThreshold, lookbackWindow, delayedExecution]
    pairIdx,         \* index of the pair being walked, 1-based
    signals,         \* signals of that pair
    day,             \* the loop variable day, 0-based
    currentPosition, \* the local currentPosition
    position,        \* the local position
    \* --- history, for stating the properties ---
    lastAdd,         \* the arguments of the last addPair call
    openPositions,   \* positions opened and not closed since the run began
    cashAtOpen,      \* cash_ just before the local position was opened
    closes,          \* per logged trade: cash_ before its open and after its close
    writes,          \* per walked day of the run: pair, day, execution day,
                     \* whether a position was closed or opened, and the value
                     \* computed for that day
    runs,            \* runBacktest calls begun
    reported         \* what the call before the current runBacktest call
                     \* reported: its metrics, and whether it was a
                     \* runBacktest with the same arguments over the same pairs

sigVars == <<sigZ, sigEntry, sigExit, sigOut, sigPc>>

pairVars == <<inputA, inputB, thePair, returned, calls, lastCall, pairPc>>

engineVars == <<marketData, pairs, positions, portfolioValues, tradeHistory,
                cash, initialCapital, metrics>>

runVars == <<pc, args, pairIdx, signals, day, currentPosition, position>>

histVars == <<lastAdd, openPositions, cashAtOpen, closes, writes, runs, reported>>

vars == <<sigZ, sigEntry, sigExit, sigOut, sigPc,
          inputA, inputB, thePair, returned, calls, lastCall, pairPc,
          marketData, pairs, positions, portfolioValues, tradeHistory,
          cash, initialCapital, metrics,
          pc, args, pairIdx, signals, day, currentPosition, position,
          lastAdd, openPositions, cashAtOpen, closes, writes, runs, reported>>

----------------------------------------------------------------------------
(* Exact arithmetic on rationals in lowest terms. *)

Abs(k) == IF k < 0 THEN -k ELSE k

Sign(k) == IF k < 0 THEN -1 ELSE IF k > 0 THEN 1 ELSE 0

\* Body(e), with e evaluated first and once (TLC evaluates a LET lazily,
\* inside the expression that uses it; a bound variable holds a value).
Bind(e, Body(_)) == CHOOSE r \in {Body(v) : v \in {e}} : TRUE

\* The vector with the elements of the finite sequence f, each evaluated.
Vec(f) == SubSeq(f, 1, Len(f))

RECURSIVE GCD(_, _)
GCD(a, b) == IF b = 0 THEN a ELSE GCD(b, a % b)

Norm(n, d) ==
    LET g == GCD(Abs(n), Abs(d))
        s == IF d < 0 THEN -1 ELSE 1
    IN  [n |-> s * (n \div g), d |-> s * (d \div g)]

R(k) == [n |-> k, d |-> 1]

Frac(a, b) == Norm(a, b)

RAdd(x, y) ==
    IF x.d = y.d THEN Norm(x.n + y.n, x.d)
    ELSE LET g == GCD(x.d, y.d)
         IN  Norm(x.n * (y.d \div g) + y.n * (x.d \div g), (x.d \div g) * y.d)

RNeg(x) == [n |-> -x.n, d |-> x.d]

RSub(x, y) == RAdd(x, RNeg(y))

RMul(x, y) ==
    IF x.d = 1 /\ y.d = 1 THEN [n |-> x.n * y.n, d |-> 1]
    ELSE LET a == Norm(x.n, y.d)
             b == Norm(y.n, x.d)
         IN  [n |-> a.n * b.n, d |-> a.d * b.d]

RDiv(x, y) == RMul(x, Norm(y.d, y.n))

\* The sign of a/b - c/d for b, d > 0, by comparing integer parts and then
\* the reciprocals of the fractional parts (no products are formed).
RECURSIVE CmpFrac(_, _, _, _)
CmpFrac(a, b, c, d) ==
    LET qa == a \div b
        qc == c \div d
        ra == a - qa * b
        rc == c - qc * d
    IN  IF qa # qc THEN Sign(qa - qc)
        ELSE IF ra = 0 \/ rc = 0 THEN Sign(ra - rc)
        ELSE CmpFrac(d, rc, b, ra)

RCmp(x, y) == CmpFrac(x.n, x.d, y.n, y.d)

RLt(x, y) == RCmp(x, y) < 0

RLe(x, y) == RCmp(x, y) <= 0

RGt(x, y) == RLt(y, x)

----------------------------------------------------------------------------
(* z-scores and test statistics: sg * sqrt(sq), sg * infinity, or NaN.      *)
(* Every comparison with NaN is false.                                     *)

ZNaN == [nan |-> TRUE, inf |-> FALSE, sg |-> 0, sq |-> R(0)]

ZInf(sign) == [nan |-> FALSE, inf |-> TRUE, sg |-> sign, sq |-> R(0)]

ZOf(r) == [nan |-> FALSE, inf |-> FALSE, sg |-> Sign(r.n), sq |-> RMul(r, r)]

\* z > t and z < t for a rational t (the double comparisons of lines 75-96)
ZGt(z, t) ==
    /\ ~z.nan
    /\ IF z.inf THEN z.sg = 1
       ELSE IF t.n >= 0 THEN z.sg = 1 /\ RGt(z.sq, RMul(t, t))
       ELSE z.sg >= 0 \/ RLt(z.sq, RMul(t, t))

ZLt(z, t) ==
    /\ ~z.nan
    /\ IF z.inf THEN z.sg = -1
       ELSE IF t.n > 0 THEN z.sg <= 0 \/ RLt(z.sq, RMul(t, t))
       ELSE z.sg = -1 /\ RGt(z.sq, RMul(t, t))

ZGe(z, t) == ~z.nan /\ ~ZLt(z, t)

ZLe(z, t) == ~z.nan /\ ~ZGt(z, t)

----------------------------------------------------------------------------
(* Utilities.cpp: the statistics.  A double that may be NaN or infinite is  *)
(* [nan, inf, v]: NaN, inf * infinity (inf = 1 or -1) or the rational v.   *)

DNaN == [nan |-> TRUE, inf |-> 0, v |-> R(0)]

DInf(sign) == [nan |-> FALSE, inf |-> sign, v |-> R(0)]

DOf(r) == [nan |-> FALSE, inf |-> 0, v |-> r]

DFinite(x) == ~x.nan /\ x.inf = 0

\* x / y for rationals: IEEE division, with x / 0 infinite and 0 / 0 NaN
DQuot(x, y) ==
    IF y.n # 0 THEN DOf(RDiv(x, y))
    ELSE IF x.n = 0 THEN DNaN ELSE DInf(Sign(x.n))

\* sqrt(q) for a rational q >= 0
ZSqrt(q) == [nan |-> FALSE, inf |-> FALSE, sg |-> Sign(q.n), sq |-> q]

\* r / s for a rational r and a square root s > 0
ZQuot(r, s) == [nan |-> FALSE, inf |-> FALSE, sg |-> Sign(r.n),
                sq |-> RDiv(RMul(r, r), s.sq)]

\* The sum of data[lo..hi] (std::accumulate and the summing loops).  The
\* arithmetic is exact, so the order of the additions does not matter; the
\* range is halved to keep the evaluation shallow.
RECURSIVE SumRange(_, _, _)
SumRange(data, lo, hi) ==
    IF lo > hi THEN R(0)
    ELSE IF lo = hi THEN data[lo]
    ELSE LET mid == (lo + hi) \div 2
         IN  RAdd(SumRange(data, lo, mid), SumRange(data, mid + 1, hi))

SeqSum(data) == SumRange(data, 1, Len(data))

Mean(data) ==
    IF data = <<>> THEN DNaN
    ELSE DOf(RDiv(SeqSum(data), R(Len(data))))

StandardDeviation(data) ==
    IF Len(data) < 2 THEN ZNaN
    ELSE LET avg == Mean(data).v
             sq  == [i \in 1..Len(data) |->
                        RMul(RSub(data[i], avg), RSub(data[i], avg))]
         IN  ZSqrt(RDiv(SeqSum(sq), R(Len(data) - 1)))

\* Entry i (1-based) is the mean of the window data[i-window+1 .. i].  With
\* window = 0 the size_t loop start window - 1 wraps and the loop is empty.
RollingMean(data, window) ==
    [i \in 1..Len(data) |->
        IF Len(data) < window \/ window = 0 \/ i < window THEN DNaN
        ELSE Mean(SubSeq(data, i - window + 1, i))]

RollingStdDev(data, window) ==
    [i \in 1..Len(data) |->
        IF Len(data) < window \/ window = 0 \/ i < window THEN ZNaN
        ELSE StandardDeviation(SubSeq(data, i - window + 1, i))]

\* stdDevs[i] > 0
ZPositive(s) == ~s.nan /\ s.sg = 1

\* a plausible slip: a window without variation gives a z-score of 0
RollingZScoreFlatIsZero(data, window) ==
    LET means   == RollingMean(data, window)
        stdDevs == RollingStdDev(data, window)
    IN  [i \in 1..Len(data) |->
            IF Len(data) < window \/ window = 0 \/ i < window THEN ZNaN
            ELSE IF ZPositive(stdDevs[i])
                 THEN ZQuot(RSub(data[i], means[i].v), stdDevs[i])
                 ELSE IF stdDevs[i].nan THEN ZNaN ELSE ZOf(R(0))]

RollingZScore(data, window) ==
    LET means   == RollingMean(data, window)
        stdDevs == RollingStdDev(data, window)
    IN  [i \in 1..Len(data) |->
            IF Len(data) < window \/ window = 0 \/ i < window THEN ZNaN
            ELSE IF ZPositive(stdDevs[i])
                 THEN ZQuot(RSub(data[i], means[i].v), stdDevs[i])
                 ELSE ZNaN]

DegenerateRegression ==
    [alpha |-> R(0), beta |-> R(0), rsquared |-> R(0), residuals |-> <<>>]

LinearRegression(x, y) ==
    IF Len(x) # Len(y) \/ x = <<>> THEN DegenerateRegression
    ELSE
    LET n      == R(Len(x))
        sum_x  == SeqSum(x)
        sum_y  == SeqSum(y)
        sum_xy == SeqSum([i \in 1..Len(x) |-> RMul(x[i], y[i])])
        sum_xx == SeqSum([i \in 1..Len(x) |-> RMul(x[i], x[i])])
        denominator == RSub(RMul(n, sum_xx), RMul(sum_x, sum_x))
    IN  IF denominator.n = 0 THEN DegenerateRegression
        ELSE
        Bind(RDiv(RSub(RMul(n, sum_xy), RMul(sum_x, sum_y)), denominator),
             LAMBDA beta :
        Bind(RDiv(RSub(sum_y, RMul(beta, sum_x)), n),
             LAMBDA alpha :
        Bind(Vec([i \in 1..Len(x) |->
                     RSub(y[i], RAdd(alpha, RMul(beta, x[i])))]),
             LAMBDA residuals :
        LET ybar == RDiv(sum_y, n)
            ss_total == SeqSum([i \in 1..Len(x) |->
                             RMul(RSub(y[i], ybar), RSub(y[i], ybar))])
            ss_residual == SeqSum([i \in 1..Len(x) |->
                             RMul(residuals[i], residuals[i])])
            rsquared == IF ss_total.n > 0
                        THEN RSub(R(1), RDiv(ss_residual, ss_total))
                        ELSE R(0)
        IN  [alpha |-> alpha, beta |-> beta, rsquared |-> rsquared,
             residuals |-> residuals])))

MinObservations == 20

\* criticalValue = -2.86
CriticalValue == Frac(-286, 100)

\* tStat = beta / se with se = sqrt(ssr / (k - 2)) / sqrt(sumsq), k being
\* residuals.size(): a size_t, so that k - 2 is a huge positive number for
\* the empty residuals of a degenerate regression and ssr / (k - 2) is 0.
TStat(beta, ssr, k, sumsq) ==
    LET seZero == ssr.n = 0
    IN  IF sumsq.n = 0 THEN ZNaN                  \* se = x / 0 with x >= 0, beta = 0
        ELSE IF seZero THEN                       \* beta / 0
            IF beta.n = 0 THEN ZNaN ELSE ZInf(Sign(beta.n))
        ELSE [nan |-> FALSE, inf |-> FALSE, sg |-> Sign(beta.n),
              sq |-> RDiv(RMul(RMul(beta, beta), RMul(R(k - 2), sumsq)), ssr)]

\* adfTest past the size check: the regression of the differences on the
\* lagged series and the comparison with the critical value
AdfRegression(timeSeries) ==
    LET m == Len(timeSeries) - 1
    IN  Bind(Vec([i \in 1..m |-> RSub(timeSeries[i + 1], timeSeries[i])]),
             LAMBDA diff :
        Bind(Vec([i \in 1..m |-> timeSeries[i]]),
             LAMBDA lagged :
        Bind(LinearRegression(lagged, diff),
             LAMBDA regression :
        Bind(SeqSum([i \in 1..Len(regression.residuals) |->
                      RMul(regression.residuals[i], regression.residuals[i])]),
             LAMBDA ssr :
        Bind(SeqSum([i \in 1..m |-> RMul(lagged[i], lagged[i])]),
             LAMBDA sumsq :
        Bind(TStat(regression.beta, ssr, Len(regression.residuals), sumsq),
             LAMBDA tStat :
        [testStatistic |-> tStat, pValue |-> Frac(5, 100),
         isStationary |-> ZLt(tStat, CriticalValue)]))))))

\* a plausible slip: 19 observations are taken as enough
AdfTestOffByOne(timeSeries) ==
    IF Len(timeSeries) < MinObservations - 1
    THEN [testStatistic |-> ZOf(R(0)), pValue |-> R(1), isStationary |-> FALSE]
    ELSE AdfRegression(timeSeries)

AdfTest(timeSeries) ==
    IF Len(timeSeries) < MinObservations
    THEN [testStatistic |-> ZOf(R(0)), pValue |-> R(1), isStationary |-> FALSE]
    ELSE AdfRegression(timeSeries)

----------------------------------------------------------------------------
(* AssetPair::generateSignals, the loop over the z-scores. *)

\* A plausible slip: an exit day also evaluates the entry conditions.
SignalStepReenter(cur, z, entry, exit) ==
    LET enter == IF ZGt(z, entry) THEN -1
                 ELSE IF ZLt(z, RNeg(entry)) THEN 1 ELSE 0
    IN  IF z.nan THEN [sig |-> 0, cur |-> cur]
        ELSE IF cur = 0 THEN [sig |-> enter, cur |-> enter]
        ELSE IF cur = 1 THEN
            IF ZGe(z, RNeg(exit)) THEN [sig |-> enter, cur |-> enter]
                                  ELSE [sig |-> 1, cur |-> 1]
        ELSE
            IF ZLe(z, exit) THEN [sig |-> enter, cur |-> enter]
                            ELSE [sig |-> -1, cur |-> -1]

\* A plausible slip: a NaN day drops the held direction.
SignalStepNaNResets(cur, z, entry, exit) ==
    IF z.nan THEN [sig |-> 0, cur |-> 0]
    ELSE IF cur = 0 THEN
        IF ZGt(z, entry) THEN [sig |-> -1, cur |-> -1]
        ELSE IF ZLt(z, RNeg(entry)) THEN [sig |-> 1, cur |-> 1]
        ELSE [sig |-> 0, cur |-> 0]
    ELSE IF cur = 1 THEN
        IF ZGe(z, RNeg(exit)) THEN [sig |-> 0, cur |-> 0]
                              ELSE [sig |-> 1, cur |-> 1]
    ELSE
        IF ZLe(z, exit) THEN [sig |-> 0, cur |-> 0]
                        ELSE [sig |-> -1, cur |-> -1]

\* A plausible slip: the exit comparisons are strict.
SignalStepStrictExit(cur, z, entry, exit) ==
    IF z.nan THEN [sig |-> 0, cur |-> cur]
    ELSE IF cur = 0 THEN
        IF ZGt(z, entry) THEN [sig |-> -1, cur |-> -1]
        ELSE IF ZLt(z, RNeg(entry)) THEN [sig |-> 1, cur |-> 1]
        ELSE [sig |-> 0, cur |-> 0]
    ELSE IF cur = 1 THEN
        IF ZGt(z, RNeg(exit)) THEN [sig |-> 0, cur |-> 0]
                              ELSE [sig |-> 1, cur |-> 1]
    ELSE
        IF ZLt(z, exit) THEN [sig |-> 0, cur |-> 0]
                        ELSE [sig |-> -1, cur |-> -1]

\* One iteration of the loop: the signal written for the day and the
\* value of currentPosition after it.
SignalStep(cur, z, entry, exit) ==
    IF z.nan THEN [sig |-> 0, cur |-> cur]
    ELSE IF cur = 0 THEN
        IF ZGt(z, entry) THEN [sig |-> -1, cur |-> -1]
        ELSE IF ZLt(z, RNeg(entry)) THEN [sig |-> 1, cur |-> 1]
        ELSE [sig |-> 0, cur |-> 0]
    ELSE IF cur = 1 THEN
        IF ZGe(z, RNeg(exit)) THEN [sig |-> 0, cur |-> 0]
                              ELSE [sig |-> 1, cur |-> 1]
    ELSE
        IF ZLe(z, exit) THEN [sig |-> 0, cur |-> 0]
                        ELSE [sig |-> -1, cur |-> -1]

\* The loop from day i on, with currentPosition = cur; sigs holds the
\* days already written.
RECURSIVE SignalLoop(_, _, _, _, _, _)
SignalLoop(zs, i, cur, sigs, entry, exit) ==
    IF i > Len(zs) THEN sigs
    ELSE LET st == SignalStep(cur, zs[i], entry, exit)
         IN  SignalLoop(zs, i + 1, st.cur, Append(sigs, st.sig), entry, exit)

\* The signal vector generateSignals returns for the z-scores zs.
SignalsOf(zs, entry, exit) == SignalLoop(zs, 1, 0, <<>>, entry, exit)

----------------------------------------------------------------------------
(* AssetPair.cpp: the Pair. *)

\* the first k elements of a vector (std::vector::resize to a smaller size)
Resize(v, k) == SubSeq(v, 1, k)

Min(a, b) == IF a < b THEN a ELSE b

\* calculateSpreads: spreads_[i] = pricesA_[i] - beta_ * pricesB_[i]
CalculateSpreads(pair) ==
    [pair EXCEPT !.spreads =
        Vec([i \in 1..Len(pair.pricesA) |->
                RSub(pair.pricesA[i], RMul(pair.beta, pair.pricesB[i]))])]

\* the last k elements of a vector
LastElements(v, k) == SubSeq(v, Len(v) - k + 1, Len(v))

\* a plausible slip: the truncation drops the earliest elements
NewAssetPairKeepsTail(symbolA, symbolB, pricesA, pricesB) ==
    LET minSize == Min(Len(pricesA), Len(pricesB))
    IN  CalculateSpreads(
            [symbolA |-> symbolA, symbolB |-> symbolB,
             pricesA |-> LastElements(pricesA, minSize),
             pricesB |-> LastElements(pricesB, minSize),
             spreads |-> <<>>,
             beta |-> R(1),
             isCointegrated |-> FALSE])

\* the constructor
NewAssetPair(symbolA, symbolB, pricesA, pricesB) ==
    LET minSize == Min(Len(pricesA), Len(pricesB))
    IN  CalculateSpreads(
            [symbolA |-> symbolA, symbolB |-> symbolB,
             pricesA |-> IF Len(pricesA) # Len(pricesB)
                         THEN Resize(pricesA, minSize) ELSE pricesA,
             pricesB |-> IF Len(pricesA) # Len(pricesB)
                         THEN Resize(pricesB, minSize) ELSE pricesB,
             spreads |-> <<>>,
             beta |-> R(1),
             isCointegrated |-> FALSE])

\* the default of the significanceLevel argument (AssetPair.h)
DefaultSignificance == Frac(5, 100)

\* a plausible slip: the slope is added to the beta the Pair holds
TestCointegrationAddsSlope(pair, significanceLevel) ==
    Bind(LinearRegression(pair.pricesB, pair.pricesA),
         LAMBDA regression :
    Bind(CalculateSpreads([pair EXCEPT !.beta = RAdd(@, regression.beta)]),
         LAMBDA fitted :
    Bind(AdfTest(fitted.spreads),
         LAMBDA adfResult :
    [fitted EXCEPT !.isCointegrated = adfResult.isStationary])))

\* testCointegration: the Pair after the call; the call returns its
\* isCointegrated field.  significanceLevel is not read.
TestCointegration(pair, significanceLevel) ==
    Bind(LinearRegression(pair.pricesB, pair.pricesA),
         LAMBDA regression :
    Bind(CalculateSpreads([pair EXCEPT !.beta = regression.beta]),
         LAMBDA fitted :
    Bind(AdfTest(fitted.spreads),
         LAMBDA adfResult :
    [fitted EXCEPT !.isCointegrated = adfResult.isStationary])))

EffectiveWindow(size, window) ==
    IF window >= size
    THEN (IF size \div 2 < 2 THEN 2 ELSE size \div 2)
    ELSE window

GetZScores(pair, window) ==
    RollingZScore(pair.spreads, EffectiveWindow(Len(pair.spreads), window))

GenerateSignals(pair, entryThreshold, exitThreshold, lookbackWindow) ==
    SignalsOf(GetZScores(pair, lookbackWindow), entryThreshold, exitThreshold)

----------------------------------------------------------------------------
(* MarketData.cpp as the engine sees it, and the data sets of the model.   *)

\* the number of trading days of the loaded data set
NumDays == MinObservations

\* Price of a symbol on day i (0-based) of the loaded file:
\*   A  1, 2, 1, 2, ...      B  1, 1, 2, 2, 1, 1, ...
PriceOn(symbol, i) ==
    CASE symbol = "A" -> R(1 + (i % 2))
      [] symbol = "B" -> R(1 + ((i \div 2) % 2))

FileSymbols == {"A", "B"}

\* a MarketData whose file was read: every column has one price per row.
\* Every cell parses to a finite positive price (a missing or unparsable
\* cell, stored as NaN by loadFromCSV, is not part of this data set).
FileData(rows) ==
    [size |-> rows,
     prices |-> [sym \in FileSymbols |-> [i \in 1..rows |-> PriceOn(sym, i - 1)]]]

LoadedData == FileData(NumDays)

\* the same file cut one row short of what adfTest asks for
ShortDays == MinObservations - 1

ShortData == FileData(ShortDays)

\* Price of a symbol on day i (0-based) of a second file with the same two
\* columns, in which A dips every sixth day and B trades at 1 except on the
\* first and the last day:
\*   A  1, 2, 2, 2, 2, 2, 1, 2, ...      B  8.75, 1, 1, ..., 1, 32
JumpPriceOn(symbol, i) ==
    CASE symbol = "A" -> IF i % 6 = 0 THEN R(1) ELSE R(2)
      [] symbol = "B" -> IF i = 0 THEN Frac(35, 4)
                         ELSE IF i = NumDays - 1 THEN R(32) ELSE R(1)

\* The day on which A steps down in a third file.
StepDay == 6

\* Price of a symbol on day i (0-based) of a third file with the same two
\* columns, in which A steps from 2 to 1 and B never moves:
\*   A  2, 2, 2, 2, 2, 2, 1, 1, ..., 1      B  1, 1, ..., 1
StepPriceOn(symbol, i) ==
    CASE symbol = "A" -> IF i < StepDay THEN R(2) ELSE R(1)
      [] symbol = "B" -> R(1)

StepData ==
    [size |-> NumDays,
     prices |-> [sym \in FileSymbols |-> [i \in 1..NumDays |-> StepPriceOn(sym, i - 1)]]]

JumpData ==
    [size |-> NumDays,
     prices |-> [sym \in FileSymbols |-> [i \in 1..NumDays |-> JumpPriceOn(sym, i - 1)]]]

\* a MarketData whose file could not be opened
NoData == [size |-> 0, prices |-> [sym \in {} |-> <<>>]]

\* getPriceSeries: present for a known symbol of loaded data
HasPriceSeries(md, symbol) == symbol \in DOMAIN md.prices

GetPriceSeries(md, symbol) == md.prices[symbol]

GetDataSize(md) == md.size

----------------------------------------------------------------------------
(* Backtester.cpp *)

\* Position()
NoPosition ==
    [symbolA |-> "", symbolB |-> "", quantityA |-> R(0), quantityB |-> R(0),
     entryPriceA |-> R(0), entryPriceB |-> R(0), entryDay |-> -1, direction |-> 0]

\* PerformanceMetrics()
NoMetrics ==
    [totalReturn |-> DOf(R(0)), sharpeRatio |-> ZOf(R(0)), maxDrawdown |-> DOf(R(0)),
     winCount |-> 0, lossCount |-> 0, avgHoldingPeriod |-> R(0),
     avgWin |-> R(0), avgLoss |-> R(0)]

NoArgs == [initialCapital |-> R(0), entryThreshold |-> R(0), exitThreshold |-> R(0),
           lookbackWindow |-> 0, delayedExecution |-> FALSE]

NoAdd == [symbolA |-> "", symbolB |-> ""]

\* the engine after construction, before any call (all specifications)
EngineFresh(md) ==
    /\ marketData = md
    /\ pairs = <<>>
    /\ positions = <<>>
    /\ portfolioValues = <<>>
    /\ tradeHistory = <<>>
    /\ cash = R(0)
    /\ initialCapital = R(0)
    /\ metrics = NoMetrics
    /\ pc = "idle"
    /\ args = NoArgs
    /\ pairIdx = 0
    /\ signals = <<>>
    /\ day = 0
    /\ currentPosition = 0
    /\ position = NoPosition
    /\ lastAdd = NoAdd
    /\ openPositions = <<>>
    /\ cashAtOpen = R(0)
    /\ closes = <<>>
    /\ writes = <<>>
    /\ runs = 0
    /\ reported = [rerun |-> FALSE, metrics |-> NoMetrics]

EngineIdle == EngineFresh(NoData)

\* no AssetPair is constructed on its own
NoPair == [symbolA |-> "", symbolB |-> "", pricesA |-> <<>>, pricesB |-> <<>>,
           spreads |-> <<>>, beta |-> R(1), isCointegrated |-> FALSE]

\* no member call was made yet
NoCall == [op |-> "", window |-> 0]

PairOff ==
    /\ inputA = <<>>
    /\ inputB = <<>>
    /\ thePair = NoPair
    /\ returned = <<>>
    /\ calls = 0
    /\ lastCall = NoCall
    /\ pairPc = "off"

\* generateSignals is not called on its own
SigOff ==
    /\ sigZ = <<>>
    /\ sigEntry = R(0)
    /\ sigExit = R(0)
    /\ sigOut = <<>>
    /\ sigPc = "off"

\* lines 23-26: the Pair addPair builds from the two series, tested
BuiltPair(md, symbolA, symbolB) ==
    TestCointegration(NewAssetPair(symbolA, symbolB,
        GetPriceSeries(md, symbolA), GetPriceSeries(md, symbolB)), DefaultSignificance)

\* BuiltPair over the loaded file, evaluated once for each two symbols
LoadedPairs ==
    [symbolA \in FileSymbols |->
        [symbolB \in FileSymbols |-> BuiltPair(LoadedData, symbolA, symbolB)]]

JumpPairs ==
    [symbolA \in FileSymbols |->
        [symbolB \in FileSymbols |-> BuiltPair(JumpData, symbolA, symbolB)]]

StepPairs ==
    [symbolA \in FileSymbols |->
        [symbolB \in FileSymbols |-> BuiltPair(StepData, symbolA, symbolB)]]

TestedPair(md, symbolA, symbolB) ==
    IF md = LoadedData THEN LoadedPairs[symbolA][symbolB]
    ELSE IF md = JumpData THEN JumpPairs[symbolA][symbolB]
    ELSE IF md = StepData THEN StepPairs[symbolA][symbolB]
    ELSE BuiltPair(md, symbolA, symbolB)

\* a plausible slip: the pair is kept whatever the test says
AcceptedPairsKeepAll(ps, md, symbolA, symbolB) ==
    IF ~HasPriceSeries(md, symbolA) \/ ~HasPriceSeries(md, symbolB) THEN ps
    ELSE Append(ps, TestedPair(md, symbolA, symbolB))

\* addPair: pairs_ after the call
AcceptedPairs(ps, md, symbolA, symbolB) ==
    IF ~HasPriceSeries(md, symbolA) \/ ~HasPriceSeries(md, symbolB) THEN ps
    ELSE IF TestedPair(md, symbolA, symbolB).isCointegrated
         THEN Append(ps, TestedPair(md, symbolA, symbolB))
         ELSE ps

\* calculatePortfolioValue(day), day 0-based
CalculatePortfolioValue(d, md, cash_, positions_, initialCapital_) ==
    IF d < 0 \/ d >= GetDataSize(md) THEN initialCapital_
    ELSE RAdd(cash_,
              SeqSum([k \in 1..Len(positions_) |->
                  LET pos == positions_[k]
                  IN  IF /\ HasPriceSeries(md, pos.symbolA)
                         /\ HasPriceSeries(md, pos.symbolB)
                         /\ d < Len(GetPriceSeries(md, pos.symbolA))
                         /\ d < Len(GetPriceSeries(md, pos.symbolB))
                      THEN RAdd(RMul(pos.quantityA, GetPriceSeries(md, pos.symbolA)[d + 1]),
                                RMul(pos.quantityB, GetPriceSeries(md, pos.symbolB)[d + 1]))
                      ELSE R(0)]))

\* a plausible slip: T+1 is never applied
ExecutionDaySameDay(d, delayedExecution, numDays) == d

\* the effective execution day of a walked day
ExecutionDay(d, delayedExecution, numDays) ==
    IF delayedExecution /\ d + 1 < numDays THEN d + 1 ELSE d

\* a plausible slip: the trade log survives the reset
ResetStateKeepsTrades(capital, trades) ==
    [cash |-> capital, initialCapital |-> capital, positions |-> <<>>,
     portfolioValues |-> <<>>, tradeHistory |-> trades]

\* "Reset state": what runBacktest sets before it looks at the data
ResetState(capital, trades) ==
    [cash |-> capital, initialCapital |-> capital, positions |-> <<>>,
     portfolioValues |-> <<>>, tradeHistory |-> <<>>]

\* a plausible slip: only leg A's proceeds reach cash
CashAfterCloseOneLeg(cash_, exitValueA, exitValueB) == RAdd(cash_, exitValueA)

\* cash_ += exitValueA + exitValueB
CashAfterClose(cash_, exitValueA, exitValueB) ==
    RAdd(cash_, RAdd(exitValueA, exitValueB))

\* std::vector::resize(k, fill)
ResizeFilled(v, k, fill) == [i \in 1..k |-> IF i <= Len(v) THEN v[i] ELSE fill]

\* a plausible slip: a day already written keeps its first value
SetPortfolioValueKeepFirst(values, executionDay, value) ==
    IF values[executionDay + 1] # R(0) THEN values
    ELSE [values EXCEPT ![executionDay + 1] = value]

\* portfolioValues_[executionDay] = value
SetPortfolioValue(values, executionDay, value) ==
    [values EXCEPT ![executionDay + 1] = value]

\* pnl = (exitValueA - entryValueA) + (exitValueB - entryValueB)
Pnl(held, priceA, priceB) ==
    RAdd(RSub(RMul(held.quantityA, priceA), RMul(held.quantityA, held.entryPriceA)),
         RSub(RMul(held.quantityB, priceB), RMul(held.quantityB, held.entryPriceB)))

\* lines 86-102: the log, cash_, the accumulators and the locals after a close
Closed(st, executionDay, exitValueA, exitValueB, pnl) ==
    [st EXCEPT
        !.tradeHistory = Append(@, <<executionDay, pnl>>),
        !.cash = CashAfterClose(@, exitValueA, exitValueB),
        !.metrics = [@ EXCEPT
            !.winCount = IF pnl.n > 0 THEN @ + 1 ELSE @,
            !.lossCount = IF pnl.n > 0 THEN @ ELSE @ + 1,
            !.avgHoldingPeriod = RAdd(@, R(executionDay - st.position.entryDay))],
        !.position = NoPosition,
        !.currentPosition = 0]

\* "Close existing position": the state after it, from the state st before
ClosePosition(st, pair, executionDay) ==
    Closed(st, executionDay,
           RMul(st.position.quantityA, pair.pricesA[executionDay + 1]),
           RMul(st.position.quantityB, pair.pricesB[executionDay + 1]),
           Pnl(st.position, pair.pricesA[executionDay + 1],
               pair.pricesB[executionDay + 1]))

\* positionSize / (2 * price), bought (side > 0) or sold
LegQuantity(positionSize, price, side) ==
    IF side > 0 THEN RDiv(positionSize, RMul(R(2), price))
    ELSE RNeg(RDiv(positionSize, RMul(R(2), price)))

\* lines 114-134: the position opened for signal with positionSize
NewPosition(pair, signal, executionDay, positionSize) ==
    [symbolA |-> pair.symbolA, symbolB |-> pair.symbolB,
     quantityA |-> LegQuantity(positionSize, pair.pricesA[executionDay + 1], signal),
     quantityB |-> LegQuantity(positionSize, pair.pricesB[executionDay + 1], -signal),
     entryPriceA |-> pair.pricesA[executionDay + 1],
     entryPriceB |-> pair.pricesB[executionDay + 1],
     entryDay |-> executionDay, direction |-> signal]

\* lines 126-141: the locals, cash_ and positions_ once the position is opened
Opened(st, held) ==
    [st EXCEPT
        !.position = held,
        !.cash = RSub(@, RAdd(RMul(held.quantityA, held.entryPriceA),
                              RMul(held.quantityB, held.entryPriceB))),
        !.positions = Append(@, held),
        !.currentPosition = held.direction]

\* "Open new position": the state after it, from the state st before
OpenPosition(st, pair, md, signal, executionDay) ==
    Opened(st, NewPosition(pair, signal, executionDay,
               RMul(CalculatePortfolioValue(executionDay - 1, md, st.cash,
                        st.positions, st.initialCapital), Frac(1, 10))))

\* a plausible slip: the close is made for every changed signal
CloseWhenChanged(st, pair, changed, executionDay) ==
    IF changed THEN ClosePosition(st, pair, executionDay)
    ELSE st

\* lines 75-103, reached when signal != currentPosition
CloseIfHeld(st, pair, changed, executionDay) ==
    IF changed /\ st.currentPosition # 0 THEN ClosePosition(st, pair, executionDay)
    ELSE st

\* lines 105-142, reached when signal != currentPosition
OpenIfSignalled(st, pair, md, changed, signal, executionDay) ==
    IF changed /\ signal # 0 THEN OpenPosition(st, pair, md, signal, executionDay)
    ELSE st

\* lines 145-146
ValueWritten(st, md, executionDay) ==
    [st EXCEPT
        !.portfolioValues = SetPortfolioValue(@, executionDay,
            CalculatePortfolioValue(executionDay, md, st.cash, st.positions,
                                    st.initialCapital))]

\* int signal = (day < signals.size()) ? signals[day] : 0
SignalOn(sigs, d) == IF d < Len(sigs) THEN sigs[d + 1] ELSE 0

\* The body of the day loop for one day: close, open, write the day's value.
WalkedDay(st, pair, md, signal, executionDay) ==
    ValueWritten(
        OpenIfSignalled(
            CloseIfHeld(st, pair, signal # st.currentPosition, executionDay),
            pair, md, signal # st.currentPosition, signal, executionDay),
        md, executionDay)

\* x - 1.0
DMinusOne(x) == IF DFinite(x) THEN DOf(RSub(x.v, R(1))) ELSE x

\* x > y for doubles: false when either is NaN
DGt(x, y) ==
    IF x.nan \/ y.nan THEN FALSE
    ELSE IF x.inf # 0 \/ y.inf # 0 THEN
        IF x.inf = 0 THEN y.inf = -1
        ELSE IF y.inf = 0 THEN x.inf = 1
        ELSE x.inf > y.inf
    ELSE RGt(x.v, y.v)

\* dailyReturns[i-1] = portfolioValues_[i] / portfolioValues_[i-1] - 1.0
DailyReturns(values) ==
    [i \in 1..(Len(values) - 1) |-> DMinusOne(DQuot(values[i + 1], values[i]))]

\* a plausible slip: the ratio is assigned without the stdDailyReturn > 0 test
SharpeRatioUnguarded(previous, values) ==
    LET returns == DailyReturns(values)
    IN  IF \E i \in 1..Len(returns) : ~DFinite(returns[i]) THEN ZNaN
        ELSE LET data == [i \in 1..Len(returns) |-> returns[i].v]
                 stdDailyReturn == StandardDeviation(data)
                 meanDailyReturn == Mean(data).v
             IN  IF stdDailyReturn.nan \/ (~ZPositive(stdDailyReturn) /\ meanDailyReturn.n = 0)
                 THEN ZNaN
                 ELSE IF ~ZPositive(stdDailyReturn) THEN ZInf(Sign(meanDailyReturn.n))
                 ELSE [nan |-> FALSE, inf |-> FALSE, sg |-> Sign(meanDailyReturn.n),
                       sq |-> RDiv(RMul(RMul(meanDailyReturn, meanDailyReturn), R(252)),
                                   stdDailyReturn.sq)]

\* The Sharpe ratio after calculateMetrics.  One NaN or infinite daily return
\* makes the standard deviation NaN, and stdDailyReturn > 0 is then false.
SharpeRatio(previous, values) ==
    LET returns == DailyReturns(values)
    IN  IF \E i \in 1..Len(returns) : ~DFinite(returns[i]) THEN previous
        ELSE LET data == [i \in 1..Len(returns) |-> returns[i].v]
                 stdDailyReturn == StandardDeviation(data)
             IN  IF ~ZPositive(stdDailyReturn) THEN previous
                 ELSE LET meanDailyReturn == Mean(data).v
                      IN  [nan |-> FALSE, inf |-> FALSE, sg |-> Sign(meanDailyReturn.n),
                           sq |-> RDiv(RMul(RMul(meanDailyReturn, meanDailyReturn), R(252)),
                                       stdDailyReturn.sq)]

\* The max-drawdown loop from entry i on.
RECURSIVE DrawdownLoop(_, _, _, _)
DrawdownLoop(values, i, maxValue, maxDrawdown) ==
    IF i > Len(values) THEN maxDrawdown
    ELSE IF RGt(values[i], maxValue)
         THEN DrawdownLoop(values, i + 1, values[i], maxDrawdown)
         ELSE LET drawdown == DQuot(RSub(maxValue, values[i]), maxValue)
              IN  DrawdownLoop(values, i + 1, maxValue,
                      IF DGt(drawdown, maxDrawdown) THEN drawdown ELSE maxDrawdown)

\* totalWins (wins = TRUE) or totalLosses over the trade log
TotalPnl(trades, wins) ==
    SeqSum([k \in 1..Len(trades) |->
               IF (trades[k][2].n > 0) = wins THEN trades[k][2] ELSE R(0)])

\* calculateMetrics: metrics_ after the call.  annualizedReturn (std::pow) is
\* not modelled.
CalculateMetrics(m, values, trades, initialCapital_) ==
    IF values = <<>> THEN m
    ELSE LET totalTrades == m.winCount + m.lossCount
         IN  [m EXCEPT
                !.totalReturn = DMinusOne(DQuot(values[Len(values)], initialCapital_)),
                !.sharpeRatio = SharpeRatio(@, values),
                !.maxDrawdown = DrawdownLoop(values, 1, values[1], DOf(R(0))),
                !.avgHoldingPeriod = IF totalTrades > 0 THEN RDiv(@, R(totalTrades)) ELSE @,
                !.avgWin = IF m.winCount > 0
                           THEN RDiv(TotalPnl(trades, TRUE), R(m.winCount)) ELSE @,
                !.avgLoss = IF m.lossCount > 0
                            THEN RDiv(TotalPnl(trades, FALSE), R(m.lossCount)) ELSE @]

----------------------------------------------------------------------------
(* Specification Spec: one Backtester over one MarketData.  addPair and    *)
(* runBacktest are called in any order; runBacktest is followed through    *)
(* its loops, one walked day per step.                                      *)

MaxPairs == 2     \* addPair is called while pairs_ holds fewer pairs
MaxRuns == 2      \* runBacktest calls
MaxWalk == 3      \* lookbackWindow is at least NumDays - MaxWalk

Symbols == FileSymbols \cup {"X"}

Capitals == {R(102400000)}

EntryThresholds == {Frac(1, 2)}

ExitThresholds == {R(0)}

Lookbacks == {NumDays - MaxWalk, NumDays}

Init ==
    /\ \/ EngineFresh(LoadedData) \/ EngineFresh(NoData)
       \/ EngineFresh(ShortData) \/ EngineFresh(JumpData)
    /\ SigOff
    /\ PairOff

AddPair(symbolA, symbolB) ==
    /\ pc = "idle"
    /\ Len(pairs) < MaxPairs
    /\ pairs' = AcceptedPairs(pairs, marketData, symbolA, symbolB)
    /\ lastAdd' = [symbolA |-> symbolA, symbolB |-> symbolB]
    /\ UNCHANGED <<marketData, positions, portfolioValues, tradeHistory, cash,
                   initialCapital, metrics>>
    /\ UNCHANGED <<runVars, openPositions, cashAtOpen, closes, writes, runs, reported>>
    /\ UNCHANGED <<sigVars, pairVars>>

\* runBacktest, lines 41-46: the reset
RunBacktestReset(capital, entryThreshold, exitThreshold, lookbackWindow, delayedExecution) ==
    /\ pc = "idle"
    /\ runs < MaxRuns
    /\ LET reset == ResetState(capital, tradeHistory)
       IN  /\ cash' = reset.cash
           /\ initialCapital' = reset.initialCapital
           /\ positions' = reset.positions
           /\ portfolioValues' = reset.portfolioValues
           /\ tradeHistory' = reset.tradeHistory
    /\ args' = [initialCapital |-> capital, entryThreshold |-> entryThreshold,
                exitThreshold |-> exitThreshold, lookbackWindow |-> lookbackWindow,
                delayedExecution |-> delayedExecution]
    /\ pc' = "reset"
    /\ runs' = runs + 1
    /\ lastAdd' = NoAdd
    /\ openPositions' = <<>>
    /\ cashAtOpen' = R(0)
    /\ closes' = <<>>
    /\ writes' = <<>>
    /\ reported' = [rerun |-> runs > 0 /\ lastAdd = NoAdd /\ args' = args,
                    metrics |-> metrics]
    /\ UNCHANGED <<marketData, pairs, metrics, pairIdx, signals, day,
                   currentPosition, position>>
    /\ UNCHANGED <<sigVars, pairVars>>

\* lines 48-52: no data, the call returns
RunBacktestNoData ==
    /\ pc = "reset"
    /\ GetDataSize(marketData) = 0
    /\ pc' = "idle"
    /\ UNCHANGED <<engineVars, args, pairIdx, signals, day, currentPosition, position>>
    /\ UNCHANGED histVars
    /\ UNCHANGED <<sigVars, pairVars>>

\* lines 54-58: the value series is sized and the loop over pairs_ begins
RunBacktestResize ==
    /\ pc = "reset"
    /\ GetDataSize(marketData) # 0
    /\ portfolioValues' = ResizeFilled(portfolioValues, GetDataSize(marketData), R(0))
    /\ pairIdx' = 1
    /\ pc' = "pairs"
    /\ UNCHANGED <<marketData, pairs, positions, tradeHistory, cash, initialCapital, metrics>>
    /\ UNCHANGED <<args, signals, day, currentPosition, position>>
    /\ UNCHANGED histVars
    /\ UNCHANGED <<sigVars, pairVars>>

\* lines 58-65: the next pair's signals and locals
PairBegin ==
    /\ pc = "pairs"
    /\ pairIdx <= Len(pairs)
    /\ signals' = GenerateSignals(pairs[pairIdx], args.entryThreshold,
                                  args.exitThreshold, args.lookbackWindow)
    /\ currentPosition' = 0
    /\ position' = NoPosition
    /\ day' = args.lookbackWindow
    /\ pc' = "days"
    /\ UNCHANGED <<engineVars, args, pairIdx>>
    /\ UNCHANGED histVars
    /\ UNCHANGED <<sigVars, pairVars>>

\* the engine's simulation state and the locals of the day loop, as a record
RunState ==
    [cash |-> cash, initialCapital |-> initialCapital, positions |-> positions,
     portfolioValues |-> portfolioValues, tradeHistory |-> tradeHistory,
     metrics |-> metrics, position |-> position, currentPosition |-> currentPosition]

\* what a walked day leaves in the history variables
DayRecorded(after, cashClosed, didClose, didOpen, executionDay) ==
    /\ openPositions' =
           IF didOpen
           THEN Append(IF didClose
                       THEN SelectSeq(openPositions, LAMBDA o : o.pair # pairIdx)
                       ELSE openPositions,
                       [pair |-> pairIdx, held |-> after.position])
           ELSE IF didClose
                THEN SelectSeq(openPositions, LAMBDA o : o.pair # pairIdx)
                ELSE openPositions
    /\ closes' = IF didClose
                 THEN Append(closes, [before |-> cashAtOpen, after |-> cashClosed])
                 ELSE closes
    /\ cashAtOpen' = IF didOpen THEN cashClosed ELSE cashAtOpen
    /\ writes' = Append(writes,
                        [pair |-> pairIdx, day |-> day, executionDay |-> executionDay,
                         closed |-> didClose, opened |-> didOpen,
                         value |-> CalculatePortfolioValue(executionDay, marketData,
                                       after.cash, after.positions,
                                       after.initialCapital)])

\* the engine and the locals after a walked day
DayWalked(after) ==
    /\ cash' = after.cash
    /\ positions' = after.positions
    /\ portfolioValues' = after.portfolioValues
    /\ tradeHistory' = after.tradeHistory
    /\ metrics' = after.metrics
    /\ position' = after.position
    /\ currentPosition' = after.currentPosition

\* lines 65-147: one day of the day loop
WalkDay ==
    /\ pc = "days"
    /\ day < GetDataSize(marketData)
    /\ DayWalked(WalkedDay(RunState, pairs[pairIdx], marketData,
                           SignalOn(signals, day),
                           ExecutionDay(day, args.delayedExecution,
                                        GetDataSize(marketData))))
    /\ initialCapital' = initialCapital
    /\ DayRecorded(RunState',
                   CloseIfHeld(RunState, pairs[pairIdx],
                               SignalOn(signals, day) # currentPosition,
                               ExecutionDay(day, args.delayedExecution,
                                            GetDataSize(marketData))).cash,
                   Len(tradeHistory') > Len(tradeHistory),
                   Len(positions') > Len(positions),
                   ExecutionDay(day, args.delayedExecution, GetDataSize(marketData)))
    /\ day' = day + 1
    /\ UNCHANGED <<marketData, pairs, pc, args, pairIdx, signals>>
    /\ UNCHANGED <<lastAdd, runs, reported>>
    /\ UNCHANGED <<sigVars, pairVars>>

\* line 148: the day loop is over, on to the next pair
PairEnd ==
    /\ pc = "days"
    /\ day >= GetDataSize(marketData)
    /\ pairIdx' = pairIdx + 1
    /\ pc' = "pairs"
    /\ UNCHANGED <<engineVars, args, signals, day, currentPosition, position>>
    /\ UNCHANGED histVars
    /\ UNCHANGED <<sigVars, pairVars>>

\* lines 150-151: the loop over pairs_ is over
RunBacktestEnd ==
    /\ pc = "pairs"
    /\ pairIdx > Len(pairs)
    /\ metrics' = CalculateMetrics(metrics, portfolioValues, tradeHistory, initialCapital)
    /\ pc' = "idle"
    /\ UNCHANGED <<marketData, pairs, positions, portfolioValues, tradeHistory,
                   cash, initialCapital>>
    /\ UNCHANGED <<args, pairIdx, signals, day, currentPosition, position>>
    /\ UNCHANGED histVars
    /\ UNCHANGED <<sigVars, pairVars>>

Next ==
    \/ \E symbolA \in Symbols, symbolB \in Symbols : AddPair(symbolA, symbolB)
    \/ \E capital \in Capitals, entryThreshold \in EntryThresholds,
          exitThreshold \in ExitThresholds, lookbackWindow \in Lookbacks,
          delayedExecution \in BOOLEAN :
            RunBacktestReset(capital, entryThreshold, exitThreshold,
                             lookbackWindow, delayedExecution)
    \/ RunBacktestNoData
    \/ RunBacktestResize
    \/ PairBegin
    \/ WalkDay
    \/ PairEnd
    \/ RunBacktestEnd

Spec == Init /\ [][Next]_vars

----------------------------------------------------------------------------
(* Specification SpecHold: the Backtester over the file in which A steps   *)
(* down, with a lookback window that reaches back to the step exactly on   *)
(* the last day, so that the window of that day holds one value only.      *)

HoldLookbacks == {NumDays - StepDay}

InitHold ==
    /\ EngineFresh(StepData) \/ EngineFresh(NoData)
    /\ SigOff
    /\ PairOff

NextHold ==
    \/ \E symbolA \in Symbols, symbolB \in Symbols : AddPair(symbolA, symbolB)
    \/ \E capital \in Capitals, entryThreshold \in EntryThresholds,
          exitThreshold \in ExitThresholds, lookbackWindow \in HoldLookbacks,
          delayedExecution \in BOOLEAN :
            RunBacktestReset(capital, entryThreshold, exitThreshold,
                             lookbackWindow, delayedExecution)
    \/ RunBacktestNoData
    \/ RunBacktestResize
    \/ PairBegin
    \/ WalkDay
    \/ PairEnd
    \/ RunBacktestEnd

SpecHold == InitHold /\ [][NextHold]_vars

----------------------------------------------------------------------------
(* Specification SpecPair: one AssetPair is constructed from two series of *)
(* any two lengths, and its members are then called in any order.          *)

MaxCalls == 2     \* member calls after the constructor

\* lengths of the second series, and of the first, which may be longer still
SeriesLengths == {0, 1, 7, 10, NumDays}

LongerLengths == SeriesLengths \cup {NumDays + 1}

\* the first len prices of a symbol's column
Series(symbol, len) == [i \in 1..len |-> PriceOn(symbol, i - 1)]

Windows == {0, 2, 5, NumDays}

SignificanceLevels == {Frac(1, 100), DefaultSignificance}

\* the two 10-day series of the cointegration test case (test_main.cpp)
TestPricesA ==
    <<R(100), R(101), R(102), Frac(203, 2), R(101), Frac(201, 2), R(101), R(102),
      R(103), Frac(205, 2)>>

TestPricesB ==
    <<R(200), R(202), R(204), R(203), R(202), R(201), R(202), R(204), R(206), R(205)>>

InitPair ==
    /\ inputA \in {Series(symbol, len) : symbol \in FileSymbols, len \in LongerLengths}
                    \cup {TestPricesA}
    /\ inputB \in {Series(symbol, len) : symbol \in FileSymbols, len \in SeriesLengths}
                    \cup {TestPricesB}
    /\ thePair = NoPair
    /\ returned = <<>>
    /\ calls = 0
    /\ lastCall = NoCall
    /\ pairPc = "new"
    /\ SigOff
    /\ EngineIdle

Construct ==
    /\ pairPc = "new"
    /\ thePair' = NewAssetPair("A", "B", inputA, inputB)
    /\ pairPc' = "built"
    /\ UNCHANGED <<inputA, inputB, returned, calls, lastCall>>
    /\ UNCHANGED <<sigVars, engineVars, runVars, histVars>>

TestCointegrationCall(significanceLevel) ==
    /\ pairPc = "built"
    /\ calls < MaxCalls
    /\ thePair' = TestCointegration(thePair, significanceLevel)
    /\ calls' = calls + 1
    /\ lastCall' = [op |-> "testCointegration", window |-> 0]
    /\ UNCHANGED <<inputA, inputB, returned, pairPc>>
    /\ UNCHANGED <<sigVars, engineVars, runVars, histVars>>

GetZScoresCall(window) ==
    /\ pairPc = "built"
    /\ calls < MaxCalls
    /\ returned' = GetZScores(thePair, window)
    /\ calls' = calls + 1
    /\ lastCall' = [op |-> "getZScores", window |-> window]
    /\ UNCHANGED <<inputA, inputB, thePair, pairPc>>
    /\ UNCHANGED <<sigVars, engineVars, runVars, histVars>>

PairGenerateSignalsCall(entryThreshold, exitThreshold, lookbackWindow) ==
    /\ pairPc = "built"
    /\ calls < MaxCalls
    /\ returned' = GenerateSignals(thePair, entryThreshold, exitThreshold, lookbackWindow)
    /\ calls' = calls + 1
    /\ lastCall' = [op |-> "generateSignals", window |-> lookbackWindow]
    /\ UNCHANGED <<inputA, inputB, thePair, pairPc>>
    /\ UNCHANGED <<sigVars, engineVars, runVars, histVars>>

NextPair ==
    \/ Construct
    \/ \E significanceLevel \in SignificanceLevels :
            TestCointegrationCall(significanceLevel)
    \/ \E window \in Windows : GetZScoresCall(window)
    \/ \E entryThreshold \in EntryThresholds, exitThreshold \in ExitThresholds,
          lookbackWindow \in Windows :
            PairGenerateSignalsCall(entryThreshold, exitThreshold, lookbackWindow)

SpecPair == InitPair /\ [][NextPair]_vars

----------------------------------------------------------------------------
(* Specification SpecSig: generateSignals on any z-score sequence. *)

MaxLen == 4

ZValues == {ZNaN} \cup {ZOf(R(k)) : k \in {-2, -1, 0, 1, 2}}

Thresholds == {Frac(k, 2) : k \in {-2, 0, 1, 2}}

RECURSIVE SeqsUpTo(_, _)
SeqsUpTo(S, k) ==
    IF k = 0 THEN {<<>>}
    ELSE LET shorter == SeqsUpTo(S, k - 1)
         IN  shorter \cup {Append(s, x) : s \in {t \in shorter : Len(t) = k - 1}, x \in S}

InitSig ==
    /\ sigZ \in SeqsUpTo(ZValues, MaxLen)
    /\ sigEntry \in Thresholds
    /\ sigExit \in Thresholds
    /\ sigOut = <<>>
    /\ sigPc = "call"
    /\ PairOff
    /\ EngineIdle

GenerateSignalsCall ==
    /\ sigPc = "call"
    /\ sigOut' = SignalsOf(sigZ, sigEntry, sigExit)
    /\ sigPc' = "done"
    /\ UNCHANGED <<sigZ, sigEntry, sigExit>>
    /\ UNCHANGED <<pairVars, engineVars, runVars, histVars>>

NextSig == GenerateSignalsCall

SpecSig == InitSig /\ [][NextSig]_vars

----------------------------------------------------------------------------
(* Claims about generateSignals (specification SpecSig). *)

\* C1: the signal sequence returned by generateSignals never has two
\* different non-flat directions on consecutive days; between a +1 day and
\* a -1 day, in either order, there is at least one flat day.
C1_NoDirectReversal ==
    sigPc = "done" =>
        \A i \in 1..Len(sigOut), j \in 1..Len(sigOut) :
            (i < j /\ sigOut[i] # 0 /\ sigOut[j] # 0 /\ sigOut[i] # sigOut[j])
                => \E k \in (i + 1)..(j - 1) : sigOut[k] = 0

\* a returned sequence that holds both directions
C1_Witness ==
    /\ sigPc = "done"
    /\ \E i \in 1..Len(sigOut), j \in 1..Len(sigOut) :
            i < j /\ sigOut[i] * sigOut[j] = -1

\* The three-state machine of the design, as a transition function on the
\* held state, the day's signal being the state after the day.
RefNext(state, z, entry, exit) ==
    CASE state = "flat"  -> IF ZGt(z, entry) THEN "short"
                            ELSE IF ZLt(z, RNeg(entry)) THEN "long"
                            ELSE "flat"
      [] state = "long"  -> IF ZGe(z, RNeg(exit)) THEN "flat" ELSE "long"
      [] state = "short" -> IF ZLe(z, exit) THEN "flat" ELSE "short"

RECURSIVE RefStateAfter(_, _, _, _)
RefStateAfter(zs, i, entry, exit) ==
    IF i = 0 THEN "flat"
    ELSE RefNext(RefStateAfter(zs, i - 1, entry, exit), zs[i], entry, exit)

RefSignal(state) ==
    CASE state = "flat" -> 0 [] state = "long" -> 1 [] state = "short" -> -1

AllDefined(zs) == \A i \in 1..Len(zs) : ~zs[i].nan

\* C2: on a sequence of defined z-scores generateSignals equals the
\* reference three-state machine (flat: z > entry gives -1, z < -entry
\* gives +1; long: flat when z >= -exit; short: flat when z <= exit; no
\* entry is evaluated on an exit day).
C2_MatchesReference ==
    (sigPc = "done" /\ AllDefined(sigZ)) =>
        /\ Len(sigOut) = Len(sigZ)
        /\ \A i \in 1..Len(sigZ) :
              sigOut[i] = RefSignal(RefStateAfter(sigZ, i, sigEntry, sigExit))

\* a defined sequence with an entry, a hold and an exit day on which the
\* entry condition of the opposite direction is true as well
C2_Witness ==
    /\ sigPc = "done" /\ AllDefined(sigZ) /\ Len(sigZ) >= 3
    /\ \E i \in 1..(Len(sigOut) - 2) :
          /\ sigOut[i] = -1 /\ sigOut[i + 1] = -1 /\ sigOut[i + 2] = 0
          /\ ZLt(sigZ[i + 2], RNeg(sigEntry))

\* the entries of xs on the days whose z-score is defined
RECURSIVE OnDefinedDays(_, _, _)
OnDefinedDays(zs, xs, i) ==
    IF i > Len(zs) THEN <<>>
    ELSE IF zs[i].nan THEN OnDefinedDays(zs, xs, i + 1)
    ELSE <<xs[i]>> \o OnDefinedDays(zs, xs, i + 1)

\* C3: a NaN z-score yields a flat signal for its day and leaves the held
\* direction unchanged: the days with a defined z-score get the signals
\* they would get if the NaN days were not there at all.
C3_NaNKeepsHeldDirection ==
    sigPc = "done" =>
        /\ Len(sigOut) = Len(sigZ)
        /\ \A i \in 1..Len(sigZ) : sigZ[i].nan => sigOut[i] = 0
        /\ OnDefinedDays(sigZ, sigOut, 1)
              = SignalsOf(OnDefinedDays(sigZ, sigZ, 1), sigEntry, sigExit)

\* a NaN day inside a held position whose next day would not be an entry
C3_Witness ==
    /\ sigPc = "done"
    /\ \E i \in 2..(Len(sigOut) - 1) :
          /\ sigZ[i].nan /\ sigOut[i - 1] # 0 /\ sigOut[i + 1] = sigOut[i - 1]
          /\ ~ZGt(sigZ[i + 1], sigEntry) /\ ~ZLt(sigZ[i + 1], RNeg(sigEntry))

----------------------------------------------------------------------------
(* Claims about the Pair (specification SpecPair). *)

IsPrefix(p, q) == Len(p) <= Len(q) /\ SubSeq(q, 1, Len(p)) = p

\* C10: a Pair built from series of lengths m and n holds pricesA, pricesB
\* and spreads of length min(m, n), each price series being the leading
\* prefix of its input, and this still holds after any sequence of
\* testCointegration, getZScores and generateSignals calls.
C10_EqualLengths ==
    pairPc = "built" =>
        /\ Len(thePair.pricesA) = Min(Len(inputA), Len(inputB))
        /\ Len(thePair.pricesB) = Min(Len(inputA), Len(inputB))
        /\ Len(thePair.spreads) = Min(Len(inputA), Len(inputB))
        /\ IsPrefix(thePair.pricesA, inputA)
        /\ IsPrefix(thePair.pricesB, inputB)

\* lengths 10 and 7 give spread length 7, and the Pair has since been
\* through testCointegration and one of the two const members
C10_Witness ==
    /\ pairPc = "built" /\ calls = MaxCalls
    /\ Len(inputA) = 10 /\ Len(inputB) = 7
    /\ Len(thePair.spreads) = 7
    /\ thePair.beta # R(1)
    /\ Len(returned) = 7

\* C11: testCointegration is idempotent and does not depend on
\* significanceLevel: a call leaves beta the regression slope of pricesA on
\* pricesB, spreads[i] = pricesA[i] - beta * pricesB[i], and a further call,
\* at any level, leaves the Pair and the returned flag as the first did.
C11_TestIdempotent ==
    pairPc = "built" =>
        \A a \in SignificanceLevels, b \in SignificanceLevels :
            LET once == TestCointegration(thePair, a)
            IN  /\ TestCointegration(once, b) = once
                /\ once = TestCointegration(thePair, b)
                /\ once.beta = LinearRegression(thePair.pricesB, thePair.pricesA).beta
                /\ Len(once.spreads) = Len(thePair.pricesA)
                /\ \A i \in 1..Len(once.spreads) :
                      once.spreads[i]
                          = RSub(thePair.pricesA[i], RMul(once.beta, thePair.pricesB[i]))

\* a 20-day Pair tested twice and found cointegrated, with a slope other
\* than the constructor's beta = 1
C11_Witness ==
    /\ pairPc = "built" /\ calls = MaxCalls /\ returned = <<>>
    /\ Len(thePair.pricesA) = NumDays
    /\ thePair.isCointegrated
    /\ thePair.beta # R(1)
    /\ TestCointegration(thePair, Frac(1, 100)) = thePair

\* |x| <= t for rationals
RWithin(x, t) == RLe(x, t) /\ RLe(RNeg(t), x)

\* C12: the Pair built from the two 10-day series of the test case tests
\* as cointegrated, with beta within 0.01 of 0.5.
C12_TestCaseCointegrated ==
    (/\ pairPc = "built" /\ calls > 0 /\ returned = <<>>
     /\ inputA = TestPricesA /\ inputB = TestPricesB) =>
        /\ thePair.isCointegrated
        /\ RWithin(RSub(thePair.beta, Frac(1, 2)), Frac(1, 100))

\* the test-case Pair after testCointegration: beta is 0.5
C12_Witness ==
    /\ pairPc = "built" /\ calls > 0 /\ returned = <<>>
    /\ inputA = TestPricesA /\ inputB = TestPricesB
    /\ thePair.beta = Frac(1, 2)

----------------------------------------------------------------------------
(* Claims about the Backtester (specification Spec). *)

\* quantity x price at day d (0-based) over both legs of a position
LegsValue(held, d) ==
    RAdd(RMul(held.quantityA, GetPriceSeries(marketData, held.symbolA)[d + 1]),
         RMul(held.quantityB, GetPriceSeries(marketData, held.symbolB)[d + 1]))

\* cash plus the legs of the positions that are open now
OpenOnlyValue(d) ==
    RAdd(cash, SeqSum([k \in 1..Len(openPositions) |->
                          LegsValue(openPositions[k].held, d)]))

\* C4: at every point of runBacktest, calculatePortfolioValue(day) for an
\* in-range day is cash plus quantity x price at that day over both legs of
\* the positions open at that point only: a closed position contributes
\* nothing to any later portfolio value.
C4_OnlyOpenPositionsCount ==
    pc # "idle" =>
        \A d \in 0..(GetDataSize(marketData) - 1) :
            CalculatePortfolioValue(d, marketData, cash, positions, initialCapital)
                = OpenOnlyValue(d)

\* the sum of the P&L values of the trade log
LoggedPnl == SeqSum([k \in 1..Len(tradeHistory) |-> tradeHistory[k][2]])

\* C5: cash just after a close equals cash just before that position was
\* opened plus the logged P&L, and cash equals initialCapital plus the sum
\* of the logged P&L whenever no position is open.
C5_CloseRealizesPnl ==
    /\ Len(closes) = Len(tradeHistory)
    /\ \A k \in 1..Len(tradeHistory) :
          closes[k].after = RAdd(closes[k].before, tradeHistory[k][2])
    /\ openPositions = <<>> => cash = RAdd(initialCapital, LoggedPnl)

\* a finished run over two pairs, each of which opened and closed one
\* position with a P&L other than zero, the second opened with the cash the
\* first close left; no position is still open
C5_Witness ==
    /\ pc = "idle" /\ Len(pairs) = 2 /\ openPositions = <<>>
    /\ Len(tradeHistory) = 2
    /\ \A k \in 1..Len(tradeHistory) : tradeHistory[k][2].n # 0
    /\ closes[2].before = closes[1].after
    /\ cash # initialCapital

\* the writes of the run whose execution day is d, in the order made
WritesTo(d) == SelectSeq(writes, LAMBDA w : w.executionDay = d)

\* C6: every runBacktest call starts from cash = initialCapital, no open
\* positions, an empty portfolio-value series and an empty trade log,
\* whatever the earlier call left behind; afterwards the trade log and the
\* portfolio-value series hold only that run's entries.
C6_RunStartsClean ==
    /\ pc = "reset" =>
          /\ cash = args.initialCapital /\ initialCapital = args.initialCapital
          /\ positions = <<>> /\ portfolioValues = <<>> /\ tradeHistory = <<>>
    /\ runs > 0 =>
          /\ Len(tradeHistory) = Len(closes)
          /\ \A k \in 1..Len(tradeHistory) : WritesTo(tradeHistory[k][1]) # <<>>
          /\ \A i \in 1..Len(portfolioValues) :
                \/ portfolioValues[i] = R(0) /\ WritesTo(i - 1) = <<>>
                \/ \E k \in 1..Len(writes) :
                      /\ writes[k].executionDay = i - 1
                      /\ writes[k].value = portfolioValues[i]

\* the second call has just reset an engine whose first call closed trades
\* (the win and loss counters are not part of the reset)
C6_Witness ==
    /\ pc = "reset" /\ runs = 2
    /\ metrics.winCount + metrics.lossCount > 0
    /\ metrics.totalReturn # DOf(R(0))

\* the execution day the claim gives for walked day d
ClaimedExecutionDay(d) ==
    IF args.delayedExecution /\ d + 1 < GetDataSize(marketData) THEN d + 1 ELSE d

\* the writes made during the walk of pair i, in the order made
WritesOf(i) == SelectSeq(writes, LAMBDA w : w.pair = i)

\* the number of days of pair i walked so far, while the run is in its loops
WalkedDays(i) ==
    IF i < pairIdx THEN GetDataSize(marketData) - args.lookbackWindow
    ELSE IF i = pairIdx /\ pc = "days" THEN day - args.lookbackWindow
    ELSE 0

\* C7: for each walked day d from lookbackWindow to numDays-1 the execution
\* day, used for the fill prices and for the recorded portfolio value, is
\* d+1 when delayedExecution is set and d+1 < numDays, and d otherwise; a
\* portfolio value is written at that index on every walked day.
C7_ExecutionDay ==
    (runs > 0 /\ pc \in {"pairs", "days"}) =>
        /\ \A i \in 1..Len(pairs) :
              /\ Len(WritesOf(i)) = WalkedDays(i)
              /\ \A j \in 1..Len(WritesOf(i)) :
                    /\ WritesOf(i)[j].day = args.lookbackWindow + j - 1
                    /\ WritesOf(i)[j].executionDay = ClaimedExecutionDay(WritesOf(i)[j].day)
        /\ writes # <<>> =>
              LET e == ClaimedExecutionDay(writes[Len(writes)].day)
              IN  portfolioValues[e + 1]
                      = CalculatePortfolioValue(e, marketData, cash, positions,
                                                initialCapital)
        /\ \A k \in 1..Len(positions) :
              /\ WritesTo(positions[k].entryDay) # <<>>
              /\ positions[k].entryPriceA
                    = GetPriceSeries(marketData, positions[k].symbolA)[positions[k].entryDay + 1]
              /\ positions[k].entryPriceB
                    = GetPriceSeries(marketData, positions[k].symbolB)[positions[k].entryDay + 1]
        /\ \A k \in 1..Len(tradeHistory) : WritesTo(tradeHistory[k][1]) # <<>>

\* a delayed run at the end of a walk: a day filled at d+1, the last day
\* filled at d, a trade closed and a day written without any trade
C7_Witness ==
    /\ pc = "days" /\ args.delayedExecution /\ day = GetDataSize(marketData)
    /\ \E j \in 1..Len(writes) : writes[j].executionDay = writes[j].day + 1
    /\ \E k \in 1..Len(writes) : writes[k].executionDay = writes[k].day
    /\ tradeHistory # <<>>
    /\ Len(writes) > Len(tradeHistory) + Len(positions)

\* C8: the pairs are walked one after another in the order accepted, each
\* over the full day range, and the final portfolio value of a day is the
\* one written during the walk of the last pair that touched the day.
C8_LastWriterWins ==
    (runs > 0 /\ pc \in {"pairs", "days"}) =>
        /\ \A j \in 1..Len(writes) : \A k \in j..Len(writes) :
              /\ writes[j].pair <= writes[k].pair
              /\ writes[j].pair = writes[k].pair => writes[j].day <= writes[k].day
        /\ (pc = "pairs" /\ pairIdx > Len(pairs)) =>
              \A i \in 1..Len(pairs) :
                  {WritesOf(i)[j].day : j \in 1..Len(WritesOf(i))}
                      = args.lookbackWindow..(GetDataSize(marketData) - 1)
        /\ \A i \in 1..Len(portfolioValues) :
              IF WritesTo(i - 1) = <<>> THEN portfolioValues[i] = R(0)
              ELSE portfolioValues[i] = WritesTo(i - 1)[Len(WritesTo(i - 1))].value

\* both pairs walked, and a day whose value written by the second pair
\* replaced a different value written by the first
C8_Witness ==
    /\ pc = "pairs" /\ pairIdx > Len(pairs) /\ Len(pairs) = 2
    /\ \E j \in 1..Len(writes), k \in 1..Len(writes) :
          /\ writes[j].pair = 1 /\ writes[k].pair = 2
          /\ writes[j].executionDay = writes[k].executionDay
          /\ writes[j].value # writes[k].value
          /\ portfolioValues[writes[k].executionDay + 1] = writes[k].value

\* the Pair addPair builds for the symbols of the call, tested
Candidate(call) == TestedPair(marketData, call.symbolA, call.symbolB)

\* C9: addPair leaves the active pair set unchanged when either symbol is
\* unknown or the cointegration test fails, and appends exactly one pair
\* when both series are present and the test passes; no operation removes a
\* pair.
C9_AddPair ==
    [][/\ IsPrefix(pairs, pairs')
       /\ pairs' # pairs => lastAdd' # NoAdd
       /\ (lastAdd' # NoAdd /\ (lastAdd' # lastAdd \/ pairs' # pairs)) =>
             IF /\ HasPriceSeries(marketData, lastAdd'.symbolA)
                /\ HasPriceSeries(marketData, lastAdd'.symbolB)
                /\ Candidate(lastAdd').isCointegrated
             THEN pairs' = Append(pairs, Candidate(lastAdd'))
             ELSE pairs' = pairs]_vars

\* after an accepted pair: a call with known symbols whose test fails, and
\* nothing was added
C9_Witness ==
    /\ Len(pairs) = 1
    /\ lastAdd = [symbolA |-> "A", symbolB |-> "A"]
    /\ ~Candidate(lastAdd).isCointegrated

RunReturned == pc = "idle" /\ runs > 0 /\ GetDataSize(marketData) >= 1

\* C14: after runBacktest over N >= 1 days with positive capital, whatever
\* pairs were accepted, the portfolio-value series has exactly N entries and
\* totalReturn, sharpeRatio and maxDrawdown are not NaN.
C14_MetricsDefined ==
    RunReturned =>
        /\ Len(portfolioValues) = GetDataSize(marketData)
        /\ ~metrics.totalReturn.nan
        /\ ~metrics.sharpeRatio.nan
        /\ ~metrics.maxDrawdown.nan

\* a run over two accepted pairs that traded, with days left unwritten
C14_Witness ==
    /\ RunReturned
    /\ Len(pairs) = 2
    /\ tradeHistory # <<>>
    /\ Len(portfolioValues) = NumDays
    /\ \E i \in 1..Len(DailyReturns(portfolioValues)) :
          ~DFinite(DailyReturns(portfolioValues)[i])

\* C15: after a run, maxDrawdown lies in [0, 1] and totalReturn is
\* finalValue / initialCapital - 1, finalValue being the last entry of the
\* portfolio-value series.
C15_DrawdownAndReturn ==
    RunReturned =>
        /\ DFinite(metrics.maxDrawdown)
        /\ RLe(R(0), metrics.maxDrawdown.v)
        /\ RLe(metrics.maxDrawdown.v, R(1))
        /\ metrics.totalReturn =
              DOf(RSub(RDiv(portfolioValues[Len(portfolioValues)], initialCapital), R(1)))

\* a run whose last portfolio value is negative
C15_Witness ==
    /\ RunReturned
    /\ portfolioValues[Len(portfolioValues)].n < 0
    /\ metrics.totalReturn =
          DOf(RSub(RDiv(portfolioValues[Len(portfolioValues)], initialCapital), R(1)))

\* C16: rollingZScore returns a sequence of the input's length without
\* infinities; entry i (0-based) is NaN exactly when i < window - 1, or the
\* input is shorter than the window, or the rolling standard deviation at i
\* is not strictly positive, and is (value - rollingMean) / rollingStdDev
\* otherwise.
C16_RollingZScore ==
    pairPc = "built" =>
        \A window \in 0..(Len(thePair.spreads) + 1) :
            LET data    == thePair.spreads
                zScores == RollingZScore(data, window)
                means   == RollingMean(data, window)
                stdDevs == RollingStdDev(data, window)
            IN  /\ Len(zScores) = Len(data)
                /\ \A i \in 1..Len(data) :
                      /\ ~zScores[i].inf
                      /\ zScores[i].nan <=>
                            \/ i - 1 < window - 1
                            \/ Len(data) < window
                            \/ ~ZPositive(stdDevs[i])
                      /\ ~zScores[i].nan =>
                            zScores[i] = ZQuot(RSub(data[i], means[i].v), stdDevs[i])

\* getZScores returned a sequence with a defined entry and, past the first
\* window - 1 entries, an entry that is NaN for a zero standard deviation
C16_Witness ==
    /\ pairPc = "built"
    /\ lastCall.op = "getZScores"
    /\ lastCall.window < Len(thePair.spreads)
    /\ returned = RollingZScore(thePair.spreads, lastCall.window)
    /\ \E i \in 1..Len(returned), j \in 1..Len(returned) :
          /\ i >= lastCall.window /\ lastCall.window > 0
          /\ returned[i].nan
          /\ RollingStdDev(thePair.spreads, lastCall.window)[i] = ZSqrt(R(0))
          /\ ~returned[j].nan /\ returned[j].sg # 0

\* the z-score of the pair being walked on day d (0-based)
ZScoreOn(d) ==
    LET zScores == GetZScores(pairs[pairIdx], args.lookbackWindow)
    IN  IF d < Len(zScores) THEN zScores[d + 1] ELSE ZNaN

\* C17: in runBacktest a position is closed only on a walked day whose
\* z-score is defined and satisfies the exit comparison of the held
\* direction; a day whose z-score is NaN neither closes nor opens a position.
C17_CloseOnlyOnExit ==
    [][(pc = "days" /\ day' = day + 1) =>
          /\ Len(tradeHistory') > Len(tradeHistory) =>
                /\ ~ZScoreOn(day).nan
                /\ IF currentPosition = 1
                   THEN ZGe(ZScoreOn(day), RNeg(args.exitThreshold))
                   ELSE ZLe(ZScoreOn(day), args.exitThreshold)
          /\ ZScoreOn(day).nan =>
                /\ tradeHistory' = tradeHistory
                /\ positions' = positions
                /\ currentPosition' = currentPosition]_vars

\* a position opened on a walked day was closed on the last day, whose window
\* holds one value only
C17_Witness ==
    /\ pc = "days" /\ day = NumDays
    /\ tradeHistory # <<>>
    /\ tradeHistory[Len(tradeHistory)][1] = NumDays - 1
    /\ ZScoreOn(NumDays - 1).nan
    /\ currentPosition = 0

\* the walked days of pair i on which a position was opened, or closed
OpensOf(i) == SelectSeq(writes, LAMBDA w : w.pair = i /\ w.opened)

ClosesOf(i) == SelectSeq(writes, LAMBDA w : w.pair = i /\ w.closed)

\* the walked days of the run with an open, or a close, whatever the pair
AllOpens == SelectSeq(writes, LAMBDA w : w.opened)

AllCloses == SelectSeq(writes, LAMBDA w : w.closed)

\* Over the run so far: for each pair closes <= opens <= closes + 1, the
\* k-th close follows the k-th open (exit day >= entry day) and precedes the
\* next open, and the trade log and positions_ hold exactly these closes and
\* opens.
OpensMatchCloses ==
    runs > 0 =>
        /\ \A i \in 1..Len(pairs) :
              /\ Len(ClosesOf(i)) <= Len(OpensOf(i))
              /\ Len(OpensOf(i)) <= Len(ClosesOf(i)) + 1
              /\ \A k \in 1..Len(ClosesOf(i)) :
                    /\ OpensOf(i)[k].day < ClosesOf(i)[k].day
                    /\ OpensOf(i)[k].executionDay <= ClosesOf(i)[k].executionDay
                    /\ k < Len(OpensOf(i)) => ClosesOf(i)[k].day <= OpensOf(i)[k + 1].day
              /\ (pc = "days" /\ pairIdx = i) =>
                    (currentPosition # 0 <=> Len(OpensOf(i)) = Len(ClosesOf(i)) + 1)
        /\ Len(AllCloses) = Len(tradeHistory)
        /\ \A c \in 1..Len(tradeHistory) : tradeHistory[c][1] = AllCloses[c].executionDay
        /\ Len(AllOpens) = Len(positions)
        /\ \A o \in 1..Len(positions) : positions[o].entryDay = AllOpens[o].executionDay

\* A walked day opens at most one position, and only when the pair holds none
\* or the held one is closed on that day; it closes at most one, and only a
\* held one, whose entry the trade-log entry follows.
OneOpenOneClose ==
    (pc = "days" /\ day' = day + 1) =>
        /\ Len(positions') <= Len(positions) + 1
        /\ Len(tradeHistory') <= Len(tradeHistory) + 1
        /\ Len(positions') > Len(positions) =>
              \/ currentPosition = 0
              \/ Len(tradeHistory') > Len(tradeHistory)
        /\ Len(tradeHistory') > Len(tradeHistory) =>
              /\ currentPosition # 0
              /\ position.entryDay >= 0
              /\ tradeHistory'[Len(tradeHistory')][1] >= position.entryDay
              /\ \E o \in 1..Len(positions) : positions[o] = position

\* C18: within one pair's walk there is no double-open and no
\* close-without-open: a position is opened only when the pair holds none (a
\* held one being closed first) and closed only when it holds one; so for each
\* pair closes <= opens <= closes + 1, and every trade-log entry matches
\* exactly one earlier open, with exit day >= entry day.
C18_OpensAndCloses == []OpensMatchCloses /\ [][OneOpenOneClose]_vars

\* a pair's walk with two opens and the close between them
C18_Witness ==
    /\ pc = "pairs" /\ runs > 0
    /\ \E i \in 1..Len(pairs) :
          /\ Len(OpensOf(i)) = 2 /\ Len(ClosesOf(i)) = 1
          /\ OpensOf(i)[1].day < ClosesOf(i)[1].day
          /\ ClosesOf(i)[1].day < OpensOf(i)[2].day

\* cash_ just before the open of a walked day: after the close, if that day
\* closed a position
CashBeforeOpen ==
    IF Len(tradeHistory') > Len(tradeHistory) THEN closes'[Len(closes')].after
    ELSE cash

\* positionSize of the open made on a walked day
ClaimedSize ==
    RMul(CalculatePortfolioValue(positions'[Len(positions')].entryDay - 1, marketData,
                                 CashBeforeOpen, positions, initialCapital),
         Frac(1, 10))

\* the dollar value of a leg (1 for A, 2 for B) of the opened position held
LegDollars(held, leg) ==
    IF leg = 1 THEN RMul(held.quantityA, held.entryPriceA)
    ELSE RMul(held.quantityB, held.entryPriceB)

\* C19: a position opened at finite positive prices has size 10% of
\* calculatePortfolioValue(executionDay - 1), split evenly in dollars between
\* two legs of opposite sign (long-spread: quantityA > 0 > quantityB,
\* short-spread: quantityA < 0 < quantityB), and opening it leaves cash
\* unchanged.
C19_OpenSizeAndLegs ==
    [][(pc = "days" /\ day' = day + 1 /\ Len(positions') > Len(positions)) =>
          LET held == positions'[Len(positions')]
          IN  /\ held = position'
              /\ held.direction = SignalOn(signals, day)
              /\ held.entryPriceA = pairs[pairIdx].pricesA[held.entryDay + 1]
              /\ held.entryPriceB = pairs[pairIdx].pricesB[held.entryDay + 1]
              /\ RAdd(LegDollars(held, held.direction), LegDollars(held, -held.direction))
                    = R(0)
              /\ RMul(R(2), LegDollars(held, IF held.direction = 1 THEN 1 ELSE 2))
                    = ClaimedSize
              /\ IF held.direction = 1
                 THEN held.quantityA.n > 0 /\ held.quantityB.n < 0
                 ELSE held.quantityA.n < 0 /\ held.quantityB.n > 0
              /\ cash' = CashBeforeOpen]_vars

\* a long-spread position was opened with A sold and B bought
C19_Witness ==
    /\ pc = "days"
    /\ position.direction = 1
    /\ position.quantityA.n < 0 /\ position.quantityB.n > 0
    /\ cash.n < 0

\* the holding periods of the run's trades, summed
HoldingDays ==
    SeqSum([c \in 1..Len(tradeHistory) |->
        LET i == AllCloses[c].pair
            k == Len(SelectSeq(SubSeq(AllCloses, 1, c), LAMBDA w : w.pair = i))
        IN  R(AllCloses[c].executionDay - OpensOf(i)[k].executionDay)])

\* C20: after every runBacktest call the metrics derive from that run only:
\* winCount + lossCount is the number of its trade-log entries,
\* avgHoldingPeriod is the mean holding period of its trades, and two
\* consecutive runs with the same arguments over the same pairs report the
\* same metrics.
C20_MetricsOfThisRun ==
    RunReturned =>
        /\ metrics.winCount + metrics.lossCount = Len(tradeHistory)
        /\ tradeHistory # <<>> =>
              metrics.avgHoldingPeriod = RDiv(HoldingDays, R(Len(tradeHistory)))
        /\ reported.rerun => metrics = reported.metrics

\* the second of two runs with the same arguments over the same traded pair
\* has returned
C20_Witness ==
    /\ RunReturned /\ runs = 2
    /\ reported.rerun
    /\ tradeHistory # <<>>
    /\ metrics.winCount + metrics.lossCount = 2 * Len(tradeHistory)

\* the days of the data set the run wrote a portfolio value for
WrittenDays == {writes[k].executionDay : k \in 1..Len(writes)}

\* C21: after runBacktest on non-empty data no portfolio value is left at
\* the 0.0 the series was resized with: every day the run did not execute on
\* (the days before the first execution day, and every day when no pair was
\* accepted or lookbackWindow >= the number of days) holds initialCapital,
\* and a run that opened no position reports total return 0.
C21_NoPlaceholderLeft ==
    RunReturned =>
        /\ \A d \in 0..(GetDataSize(marketData) - 1) :
              d \notin WrittenDays => portfolioValues[d + 1] = initialCapital
        /\ positions = <<>> => metrics.totalReturn = DOf(R(0))

\* a run over the loaded file with no accepted pair has returned
C21_Witness ==
    /\ RunReturned /\ pairs = <<>> /\ positions = <<>>
    /\ Len(portfolioValues) = NumDays
    /\ WrittenDays = {}

====
